---- MODULE Spec2Model ----
(***************************************************************************)
(* State-machine models of the batch scripts of the rock-detection        *)
(* repository:                                                             *)
(*   scripts/preprocessing/run_preprocessing_for_canton.py  (SpecPipeline) *)
(*   scripts/download_tiles.py, scripts/preprocessing/download_tiles.py    *)
(*       (SpecDownload: one call of download; SpecExtract: one call of     *)
(*        extract_urls_from_csv; SpecTiles: main)                          *)
(*   scripts/preprocessing/crop_resample_tiles.py           (SpecCrop)     *)
(*   scripts/analysis/duplicate_suppression/find_duplicates_from_labels.py *)
(*       (SpecParse: one call of parse_patch_name)                         *)
(* Each script is a sequential program; a specification below models one   *)
(* script and leaves the variables of the others at their idle values.     *)
(***************************************************************************)
EXTENDS Integers, Sequences, FiniteSets, TLC

VARIABLES
    \* ---- run_preprocessing_for_canton.py ----
    ppc,              \* position of main: "find_csv", "steps", "exited"
    folder,           \* names of the entries of data/URLs/canton_<canton>
    quiet,            \* args.quiet
    swissimage_csv,   \* result of find_csv(urls_dir, "swissimage")
    dsm_csv,          \* result of find_csv(urls_dir, "swisssurface3d-raster")
    step,             \* index of the next run(...) call of main, 1..7
    running,          \* child processes currently alive (step indices)
    started,          \* step indices in the order their subprocess started
    finished,         \* <<step, returncode>> in the order children finished
    exit_status,      \* exit status of the script, Running until it ends
    complete_printed, \* the "preprocessing complete" message was printed
    \* ---- download_tiles.py (both copies) ----
    dpc,              \* position: "read", "limit", "loop", "dl_enter", "dl_try",
                      \*           "dl_return", "done"; "idle" when not modelled
    script,           \* "root": scripts/download_tiles.py,
                      \* "preprocessing": scripts/preprocessing/download_tiles.py
    csv_lines,        \* records of the input file, each a sequence of fields
    header,           \* column names of the input file (read by csv.DictReader)
    max_arg,          \* args.max
    rows,             \* main's list of (name, url) pairs
    row_idx,          \* index in rows of the pair the for loop is at
    log,              \* main's list of (fname, url, status)
    manifest,         \* lines of manifest.csv, None before it is written
    fs,               \* size in chunks of each file of the output folder
    out_path,         \* download's out_path
    url_arg,          \* download's url
    retries,          \* download's retries
    attempt,          \* download's loop variable
    dl_attempts,      \* outcome of each HTTP attempt of the current call
    dl_status,        \* value returned by the current call, NoStatus before
    \* ---- crop_resample_tiles.py ----
    cpc,              \* position: "start", "tif", "rows", "cols", "done", "exited"
    args,             \* tilesize, overlap, src_res, dst_res of the command line
    tif_files,        \* sorted(src_dir.glob("*.tif")): what gdalinfo tells of each
    tif_idx,          \* index in tif_files of the tile the for loop is at
    src_tile_size,    \* window side in source pixels
    src_stride,       \* window stride in source pixels
    idx_i,            \* row index of the window
    idx_j,            \* column index of the window
    x_offset,         \* column of the window's origin, in source pixels
    y_offset,         \* row of the window's origin, in source pixels
    out_dir,          \* names of the patches that exist in the output folder
    gdal_calls,       \* gdal_translate commands run so far: <<out_name, succeeded>>
    last_window,      \* the window the loop body handled last and what it did
    total_created,
    total_skipped,
    \* ---- parse_patch_name ----
    ypc,              \* "call" before the call, "returned" after it
    name_parts,       \* the underscore-separated parts the file name was built of
    name_ext,         \* the extension the file name was built with
    filename,         \* the argument: a sequence of characters
    parsed,           \* the outcome of the call: kind "tuple" with tile_id, row,
                      \* col; kind "none" for (None, None, None); kind
                      \* "ValueError" when int() raises
    \* ---- boxes_are_duplicates ----
    bpc,              \* "call" before the call, "returned" after it
    global1,          \* main's global1: cx, cy, w, h in tile pixels
    global2,          \* main's global2
    dup_threshold,    \* the distance_threshold of the call, in pixels
    is_dup,           \* what boxes_are_duplicates(global1, global2) returned
    is_dup_rev,       \* what boxes_are_duplicates(global2, global1) returned
    \* ---- find_matching_boxes ----
    mpc,              \* "convert", then "match", then "returned"
    patch_boxes,      \* the YOLO boxes of one patch, numerators over CoordDen
    prow,             \* the patch's row
    pcol,             \* the patch's column
    psize,            \* the patch_size of the calls
    poverlap,         \* the overlap of the calls
    targets,          \* the target_globals of the call
    pthreshold,       \* the threshold of the call, in pixels
    global_boxes,     \* box_to_global_coords of each box
    global_centres,   \* the centre find_matching_boxes computed for each box
    matching_indices  \* what find_matching_boxes returned (0-based indices)

pipeVars == <<ppc, folder, quiet, swissimage_csv, dsm_csv, step, running,
              started, finished, exit_status, complete_printed>>

dlVars == <<dpc, script, csv_lines, header, max_arg, rows, row_idx, log,
            manifest, fs, out_path, url_arg, retries, attempt, dl_attempts,
            dl_status>>

cropVars == <<cpc, args, tif_files, tif_idx, src_tile_size, src_stride, idx_i,
              idx_j, x_offset, y_offset, out_dir, gdal_calls, last_window,
              total_created, total_skipped>>

parseVars == <<ypc, name_parts, name_ext, filename, parsed>>

dupVars == <<bpc, global1, global2, dup_threshold, is_dup, is_dup_rev>>

matchVars == <<mpc, patch_boxes, prow, pcol, psize, poverlap, targets, pthreshold,
               global_boxes, global_centres, matching_indices>>

vars == <<pipeVars, dlVars, cropVars, parseVars, dupVars, matchVars>>

\* Python's None; file names are non-empty token sequences.
None == <<>>
\* exit_status of a script that has not ended yet.
Running == -1

(***************************************************************************)
(*                 run_preprocessing_for_canton.py                         *)
(***************************************************************************)

\* The run(...) calls of main, in program order.
Steps == << "download_swissimage", "download_dsm", "generate_hillshade",
            "crop_resample_swissimage", "crop_hillshade", "fuse_rgb_hs" >>

NumSteps == Len(Steps)

\* File names are sequences of name fragments, so that str.lower() and the
\* substring test act on the text of the name.
FileNames ==
    { << "swissimage", ".csv" >>,
      << "ch.swisstopo.", "SWISSIMAGE", "-dop10", ".csv" >>,
      << "swisssurface3d-raster", ".csv" >>,
      << "ch.swisstopo.", "SwissSURFACE3D-Raster", ".csv" >>,
      << "swissimage", ".txt" >>,
      << "swissimage", "_", "swisssurface3d-raster", ".csv" >>,
      << "notes", ".csv" >> }

\* Return codes a child process may end with (negative: killed by a signal).
ReturnCodes == {0, 1, 2, -9}

\* str.lower() on one fragment.
LowerFragment(t) ==
    CASE t = "SWISSIMAGE" -> "swissimage"
      [] t = "SwissSURFACE3D-Raster" -> "swisssurface3d-raster"
      [] OTHER -> t

\* str.lower() on a name.
Lower(name) == [i \in 1..Len(name) |-> LowerFragment(name[i])]

\* keyword in name  (keyword is a single fragment).
Contains(name, keyword) == \E i \in 1..Len(name) : name[i] = keyword

\* folder.glob("*.csv")
GlobCsv(dir) == { f \in dir : f[Len(f)] = ".csv" }

\* The list comprehension of find_csv: the CSVs whose lowered name has the keyword.
Matches(dir, keyword) ==
    { f \in GlobCsv(dir) : Contains(Lower(f), LowerFragment(keyword)) }

\* The values find_csv may return: None without a match, else matches[0]; the
\* order of glob is the directory's, so any match may come first.
find_csv(dir, keyword) ==
    IF Matches(dir, keyword) = {} THEN {None} ELSE Matches(dir, keyword)

\* Faulty variant of MissingCsv: "and" in place of "or".
MissingCsv_OnlyBoth(a, b) == a = None /\ b = None

\* "if not swissimage_csv or not dsm_csv"
MissingCsv(a, b) == a = None \/ b = None

\* Faulty variant of RaisesCalledProcessError: check=True left out.
RaisesCalledProcessError_Never(rc) == FALSE

\* subprocess.run(..., check=True) raises CalledProcessError on a non-zero code.
RaisesCalledProcessError(rc) == rc # 0

\* Faulty variant of SubprocessPending: the child is started and not waited for.
SubprocessPending_Popen == FALSE

\* subprocess.run does not return while its child is alive.
SubprocessPending == running # {}

\* The download scripts are not running.
IdleDownload ==
    /\ dpc = "idle"
    /\ script = "preprocessing"
    /\ csv_lines = <<>>
    /\ header = <<>>
    /\ max_arg = 0
    /\ rows = <<>>
    /\ row_idx = 1
    /\ log = <<>>
    /\ manifest = None
    /\ fs = <<>>
    /\ out_path = None
    /\ url_arg = None
    /\ retries = 0
    /\ attempt = 0
    /\ dl_attempts = <<>>
    /\ dl_status = "NoStatus"

\* crop_resample_tiles.py is not running.
IdleCrop ==
    /\ cpc = "idle"
    /\ args = <<>>
    /\ tif_files = <<>>
    /\ tif_idx = 1
    /\ src_tile_size = 0
    /\ src_stride = 0
    /\ idx_i = 0
    /\ idx_j = 0
    /\ x_offset = 0
    /\ y_offset = 0
    /\ out_dir = {}
    /\ gdal_calls = <<>>
    /\ last_window = [name |-> <<>>, i |-> 0, j |-> 0, x |-> 0, y |-> 0,
                      outcome |-> "none"]
    /\ total_created = 0
    /\ total_skipped = 0

\* parse_patch_name is not being called.
IdleParse ==
    /\ ypc = "idle"
    /\ name_parts = <<>>
    /\ name_ext = <<>>
    /\ filename = <<>>
    /\ parsed = [kind |-> "idle", tile_id |-> <<>>, row |-> 0, col |-> 0]

\* A global box before box_to_global_coords has produced one.
NoGlobal == [cx |-> 0, cy |-> 0, w |-> 0, h |-> 0]

\* The result of boxes_are_duplicates before the call.
NoResult == [is_duplicate |-> FALSE, distance_sq |-> 0]

\* boxes_are_duplicates is not being called.
IdleDup ==
    /\ bpc = "idle"
    /\ global1 = NoGlobal
    /\ global2 = NoGlobal
    /\ dup_threshold = 0
    /\ is_dup = NoResult
    /\ is_dup_rev = NoResult

\* find_matching_boxes is not being called.
IdleMatch ==
    /\ mpc = "idle"
    /\ patch_boxes = <<>>
    /\ prow = 0
    /\ pcol = 0
    /\ psize = 0
    /\ poverlap = 0
    /\ targets = <<>>
    /\ pthreshold = 0
    /\ global_boxes = <<>>
    /\ global_centres = <<>>
    /\ matching_indices = {}

\* run_preprocessing_for_canton.py is not running.
IdlePipeline ==
    /\ ppc = "idle"
    /\ folder = {}
    /\ quiet = FALSE
    /\ swissimage_csv = None
    /\ dsm_csv = None
    /\ step = 1
    /\ running = {}
    /\ started = <<>>
    /\ finished = <<>>
    /\ exit_status = Running
    /\ complete_printed = FALSE

InitPipeline ==
    /\ IdleDownload
    /\ IdleCrop
    /\ IdleParse
    /\ IdleDup
    /\ IdleMatch
    /\ ppc = "find_csv"
    /\ folder \in SUBSET FileNames
    /\ quiet \in BOOLEAN
    /\ swissimage_csv = None
    /\ dsm_csv = None
    /\ step = 1
    /\ running = {}
    /\ started = <<>>
    /\ finished = <<>>
    /\ exit_status = Running
    /\ complete_printed = FALSE

\* main, lines 45-77: both find_csv calls and the check of their results.
FindCsvs ==
    /\ ppc = "find_csv"
    /\ \E a \in find_csv(folder, "swissimage") :
       \E b \in find_csv(folder, "swisssurface3d-raster") :
          /\ swissimage_csv' = a
          /\ dsm_csv' = b
          /\ IF MissingCsv(a, b)
                THEN ppc' = "exited" /\ exit_status' = 1
                ELSE ppc' = "steps" /\ exit_status' = exit_status
    /\ UNCHANGED <<folder, quiet, step, running, started, finished,
                   complete_printed, dlVars, cropVars, parseVars,
                   dupVars, matchVars>>

\* run(cmd): subprocess.run starts the shell command of the next step.
StartStep ==
    /\ ppc = "steps"
    /\ ~SubprocessPending
    /\ step <= NumSteps
    /\ running' = running \cup {step}
    /\ started' = Append(started, step)
    /\ step' = step + 1
    /\ UNCHANGED <<ppc, folder, quiet, swissimage_csv, dsm_csv, finished,
                   exit_status, complete_printed, dlVars, cropVars, parseVars,
                   dupVars, matchVars>>

\* The child ends; subprocess.run returns or raises, and run() exits on the raise.
ChildExit ==
    /\ ppc = "steps"
    /\ \E c \in running : \E rc \in ReturnCodes :
          /\ running' = running \ {c}
          /\ finished' = Append(finished, <<c, rc>>)
          /\ IF RaisesCalledProcessError(rc)
                THEN ppc' = "exited" /\ exit_status' = 1
                ELSE ppc' = ppc /\ exit_status' = exit_status
    /\ UNCHANGED <<folder, quiet, swissimage_csv, dsm_csv, step, started,
                   complete_printed, dlVars, cropVars, parseVars,
                   dupVars, matchVars>>

\* main, lines 105-106: the final messages, then the script ends normally.
PrintComplete ==
    /\ ppc = "steps"
    /\ ~SubprocessPending
    /\ step = NumSteps + 1
    /\ complete_printed' = TRUE
    /\ ppc' = "exited"
    /\ exit_status' = 0
    /\ UNCHANGED <<folder, quiet, swissimage_csv, dsm_csv, step, running,
                   started, finished, dlVars, cropVars, parseVars,
                   dupVars, matchVars>>

NextPipeline == FindCsvs \/ StartStep \/ ChildExit \/ PrintComplete

SpecPipeline == InitPipeline /\ [][NextPipeline]_vars

(***************************************************************************)
(*   scripts/download_tiles.py and scripts/preprocessing/download_tiles.py *)
(*                                                                         *)
(* The two copies of download() differ only in the default of timeout,     *)
(* which is handed to requests.get and decides nothing below.  A file of   *)
(* the output folder is modelled by its size in chunks, Absent when it     *)
(* does not exist.                                                         *)
(***************************************************************************)

\* fs[f] of a file that does not exist.
Absent == -1

\* Most chunks one response body holds.
MaxChunks == 2

\* Largest retries argument drawn for a direct call of download.
MaxRetries == 3

\* download(url, out_path, retries=3, ...): the default main relies on.
DefaultRetries == 3

\* A field of the input file: a URL, a file name or other text.  A URL is
\* dir/base+ext; esc says that its text holds a backslash.
Url(dir, base, ext, esc) ==
    [kind |-> "url", dir |-> dir, base |-> base, ext |-> ext, esc |-> esc]
File(base, ext) ==
    [kind |-> "file", dir |-> "", base |-> base, ext |-> ext, esc |-> FALSE]
Text(t) ==
    [kind |-> "text", dir |-> "", base |-> t, ext |-> "", esc |-> FALSE]

\* The records the input files are made of.
LineChoices ==
    { << File("tile a", ".tif"), Url("h1", "a", ".tif", FALSE) >>,
      << Text("x"), Url("h1", "a", ".tif", TRUE) >>,
      << File("tile_a", ".TIF"), Url("h2", "b", ".zip", FALSE) >>,
      << Text("x"), Text("") >>,
      << Text(""), Url("h1", "a", ".tif", FALSE) >>,
      << Url("h2", "b", ".zip", FALSE), Url("h1", "c", ".tif", FALSE) >> }

\* Column names of the input files.
HeaderChoices ==
    { << "name", "url" >>, << "Fichier", "Lien" >>, << "id", "URL" >>,
      << "Name", "href" >> }

\* All sequences over S of length at most n.
SeqUpTo(S, n) == UNION { [1..k -> S] : k \in 0..n }

\* http_re.search(joined): the first field of the line that is a URL, None
\* when the line has none.
SearchHttp(line) ==
    IF \E i \in 1..Len(line) : line[i].kind = "url"
      THEN line[CHOOSE i \in 1..Len(line) :
                   /\ line[i].kind = "url"
                   /\ \A j \in 1..(i-1) : line[j].kind # "url"]
      ELSE None

\* m.group(0).strip().replace("\\", "")
StripBackslash(u) == [u EXCEPT !.esc = FALSE]

\* str.lower() on a suffix.
LowerSuffix(e) == IF e = ".TIF" THEN ".tif" ELSE e

\* token.lower().endswith(".tif")
EndsWithTif(t) == LowerSuffix(t.ext) = ".tif"

\* Path(token).name and Path(urlparse(url).path).name: the last path component.
PathName(t) == << t.base, t.ext >>

\* The name extract_urls_from_csv gives a line: the last component of the first
\* field ending in .tif, else that of the URL's path.
LineName(line, url) ==
    IF \E i \in 1..Len(line) : EndsWithTif(line[i])
      THEN PathName(line[CHOOSE i \in 1..Len(line) :
                   /\ EndsWithTif(line[i])
                   /\ \A j \in 1..(i-1) : ~EndsWithTif(line[j])])
      ELSE PathName(url)

\* The loop "for line in reader" of extract_urls_from_csv: rows before the
\* removal of duplicates.
RECURSIVE ScanLines(_)
ScanLines(lines) ==
    IF lines = <<>> THEN <<>>
    ELSE LET line == lines[Len(lines)]
             m == SearchHttp(line)
             before == ScanLines(SubSeq(lines, 1, Len(lines) - 1))
         IN IF m = None THEN before
            ELSE Append(before, << LineName(line, StripBackslash(m)),
                                   StripBackslash(m) >>)

\* Faulty variant of DictItems: the rows are returned as scanned.
DictItems_KeepAll(rs) == rs

\* "uniq[u] = n" for every row, then the items of uniq: a dict keeps the place
\* of a key's first insertion and the value of its last.
RECURSIVE DictItems(_)
DictItems(rs) ==
    IF rs = <<>> THEN <<>>
    ELSE LET r == rs[Len(rs)]
             before == DictItems(SubSeq(rs, 1, Len(rs) - 1))
         IN IF \E i \in 1..Len(before) : before[i][2] = r[2]
              THEN [i \in 1..Len(before) |->
                       IF before[i][2] = r[2] THEN r ELSE before[i]]
              ELSE Append(before, r)

\* extract_urls_from_csv(csv_path)
extract_urls_from_csv(lines) == DictItems(ScanLines(lines))

\* r.get(c1) or r.get(c2) or ...: the first non-empty field among the columns
\* named in cols (in that order), "" (falsy) when there is none.
RECURSIVE GetOr(_, _, _)
GetOr(hdr, line, cols) ==
    IF cols = <<>> THEN Text("")
    ELSE LET hits == { i \in 1..Len(hdr) : hdr[i] = cols[1] /\ i <= Len(line)
                                           /\ line[i] # Text("") }
         IN IF hits # {} THEN line[CHOOSE i \in hits : \A j \in hits : i <= j]
            ELSE GetOr(hdr, line, Tail(cols))

\* The loop "for r in reader" of the root script's main.
RECURSIVE DictReaderRows(_, _)
DictReaderRows(hdr, lines) ==
    IF lines = <<>> THEN <<>>
    ELSE LET line == lines[Len(lines)]
             url == GetOr(hdr, line, << "url", "URL", "Lien", "Link" >>)
             name == GetOr(hdr, line, << "name", "Name", "Fichier" >>)
             before == DictReaderRows(hdr, SubSeq(lines, 1, Len(lines) - 1))
         IN IF url = Text("") THEN before
            ELSE Append(before,
                        << IF name = Text("") THEN PathName(url)
                                              ELSE PathName(name), url >>)

\* Faulty variant of LimitRows: one row too many is kept.
LimitRows_OffByOne(rs, n) ==
    IF n > 0 THEN SubSeq(rs, 1, IF n + 1 < Len(rs) THEN n + 1 ELSE Len(rs))
    ELSE rs

\* "if args.max > 0: rows = rows[:args.max]"
LimitRows(rs, n) ==
    IF n > 0 THEN SubSeq(rs, 1, IF n < Len(rs) THEN n ELSE Len(rs)) ELSE rs

\* sanitize(name)
sanitize(t) == IF t = "tile a" THEN "tile_a" ELSE t

\* args.prefix + sanitize(Path(name).stem) + ".tif", with the default prefix "".
\* Path(name).stem drops the last suffix of the name.
FName(name) == << sanitize(name[1]), ".tif" >>

\* The files main may write.
FNames == { FName(PathName(l[i])) : l \in LineChoices, i \in 1..2 }

\* Faulty variant of AlreadyDownloaded: the size test inverted.
AlreadyDownloaded_Inverted(p) == fs[p] = 0

\* "out_path.exists() and out_path.stat().st_size > 0"
AlreadyDownloaded(p) == fs[p] # Absent /\ fs[p] > 0

\* Faulty variant of LastAttempt: the loop gives up one attempt early.
LastAttempt_OneEarly == attempt >= retries - 1

\* "if attempt == retries" in the except clause.
LastAttempt == attempt = retries

\* The statuses "error: {e}" of download.
ErrorStatuses == { "error: <exception>", "error: Empty file after download" }

\* Most records of an input file handed to extract_urls_from_csv.
MaxLines == 3

\* Most records of an input file handed to main, and the largest --max drawn.
MaxMainLines == 2
MaxMaxArg == 2

\* The records main's input files are made of.
MainLineChoices ==
    { l \in LineChoices : l[1] \in { File("tile a", ".tif"), Text(""),
                                     File("tile_a", ".TIF"), Text("x") }
                          /\ ~l[2].esc }

\* The output folder before main runs: empty, or left by an earlier run.
InitialFolders ==
    { [f \in FNames |-> Absent], [f \in FNames |-> 1] }

\* The position of the script itself; the locals of download are not live.
NoCall ==
    /\ out_path = None
    /\ url_arg = None
    /\ retries = 0
    /\ attempt = 0
    /\ dl_attempts = <<>>
    /\ dl_status = "NoStatus"

\* download_tiles.py started with its arguments parsed.
InitTiles ==
    /\ IdlePipeline
    /\ IdleCrop
    /\ IdleParse
    /\ IdleDup
    /\ IdleMatch
    /\ dpc = "read"
    /\ script \in { "root", "preprocessing" }
    /\ csv_lines \in SeqUpTo(MainLineChoices, MaxMainLines)
    /\ header \in IF script = "root" THEN HeaderChoices \ { << "Name", "href" >> }
                                     ELSE { << "name", "url" >> }
    /\ max_arg \in 0..MaxMaxArg
    /\ rows = <<>>
    /\ row_idx = 1
    /\ log = <<>>
    /\ manifest = None
    /\ fs \in InitialFolders
    /\ NoCall

\* A direct call download(url, out_path, retries=R).
InitDownload ==
    /\ IdlePipeline
    /\ IdleCrop
    /\ IdleParse
    /\ IdleDup
    /\ IdleMatch
    /\ dpc = "dl_enter"
    /\ script \in { "root", "preprocessing" }
    /\ csv_lines = <<>>
    /\ header = <<>>
    /\ max_arg = 0
    /\ rows = <<>>
    /\ row_idx = 1
    /\ log = <<>>
    /\ manifest = None
    /\ out_path \in FNames
    /\ fs \in [ {out_path} -> Absent..MaxChunks ]
    /\ url_arg \in { l[2] : l \in MainLineChoices } \ { Text("") }
    /\ retries \in 0..MaxRetries
    /\ attempt = 0
    /\ dl_attempts = <<>>
    /\ dl_status = "NoStatus"

\* An input file handed to extract_urls_from_csv.
InitExtract ==
    /\ IdlePipeline
    /\ IdleCrop
    /\ IdleParse
    /\ IdleDup
    /\ IdleMatch
    /\ dpc = "read"
    /\ script = "preprocessing"
    /\ csv_lines \in SeqUpTo(LineChoices, MaxLines)
    /\ header = <<>>
    /\ max_arg = 0
    /\ rows = <<>>
    /\ row_idx = 1
    /\ log = <<>>
    /\ manifest = None
    /\ fs = <<>>
    /\ NoCall

\* main up to the rows it found: extract_urls_from_csv(args.csv) in the
\* preprocessing copy, the csv.DictReader loop in the root copy.
ReadRows ==
    /\ dpc = "read"
    /\ rows' = IF script = "root" THEN DictReaderRows(header, csv_lines)
                                  ELSE extract_urls_from_csv(csv_lines)
    /\ dpc' = "limit"
    /\ UNCHANGED <<script, csv_lines, header, max_arg, row_idx, log, manifest,
                   fs, out_path, url_arg, retries, attempt, dl_attempts,
                   dl_status, pipeVars, cropVars, parseVars,
                   dupVars, matchVars>>

\* main: the --max cut.
ApplyMax ==
    /\ dpc = "limit"
    /\ rows' = LimitRows(rows, max_arg)
    /\ dpc' = "loop"
    /\ UNCHANGED <<script, csv_lines, header, max_arg, row_idx, log, manifest,
                   fs, out_path, url_arg, retries, attempt, dl_attempts,
                   dl_status, pipeVars, cropVars, parseVars,
                   dupVars, matchVars>>

\* main: the loop body up to the call download(url, out_dir / fname).
CallDownload ==
    /\ dpc = "loop"
    /\ row_idx <= Len(rows)
    /\ out_path' = FName(rows[row_idx][1])
    /\ url_arg' = rows[row_idx][2]
    /\ retries' = DefaultRetries
    /\ attempt' = 0
    /\ dl_attempts' = <<>>
    /\ dl_status' = "NoStatus"
    /\ dpc' = "dl_enter"
    /\ UNCHANGED <<script, csv_lines, header, max_arg, rows, row_idx, log,
                   manifest, fs, pipeVars, cropVars, parseVars,
                   dupVars, matchVars>>

\* download: the mkdir, the check of an existing file and the entry of the loop
\* ("None" is what the function returns when range(1, retries + 1) is empty).
DownloadEnter ==
    /\ dpc = "dl_enter"
    /\ IF AlreadyDownloaded(out_path)
         THEN dl_status' = "skip" /\ dpc' = "dl_return" /\ attempt' = attempt
         ELSE IF retries < 1
           THEN dl_status' = "None" /\ dpc' = "dl_return" /\ attempt' = attempt
           ELSE dl_status' = dl_status /\ dpc' = "dl_try" /\ attempt' = 1
    /\ UNCHANGED <<script, csv_lines, header, max_arg, rows, row_idx, log,
                   manifest, fs, out_path, url_arg, retries, dl_attempts,
                   pipeVars, cropVars, parseVars,
                   dupVars, matchVars>>

\* download: one pass of the loop.  The request or open() raises before the file
\* is touched, or the file is truncated and k chunks are written before the
\* stream raises or ends; an ended stream that left no byte raises IOError.
DownloadAttempt ==
    /\ dpc = "dl_try"
    /\ \E outcome \in { "request_raises", "stream_raises", "completes" } :
       \E k \in 0..MaxChunks :
          LET failed == outcome # "completes" \/ k = 0
              msg == IF outcome = "completes"
                       THEN "error: Empty file after download"
                       ELSE "error: <exception>"
          IN /\ fs' = IF outcome = "request_raises" THEN fs
                                                   ELSE [fs EXCEPT ![out_path] = k]
             /\ dl_attempts' = Append(dl_attempts,
                    IF outcome # "completes" THEN outcome
                    ELSE IF k = 0 THEN "completes_empty" ELSE "completes_nonempty")
             /\ IF ~failed
                  THEN dl_status' = "ok" /\ dpc' = "dl_return" /\ attempt' = attempt
                  ELSE IF LastAttempt
                    THEN dl_status' = msg /\ dpc' = "dl_return" /\ attempt' = attempt
                    ELSE dl_status' = dl_status /\ dpc' = dpc /\ attempt' = attempt + 1
    /\ UNCHANGED <<script, csv_lines, header, max_arg, rows, row_idx, log,
                   manifest, out_path, url_arg, retries, pipeVars, cropVars, parseVars,
                   dupVars, matchVars>>

\* main: download returned; "log.append((fname, url, status))" and the next row.
AppendLog ==
    /\ dpc = "dl_return"
    /\ log' = Append(log, << out_path, url_arg, dl_status >>)
    /\ row_idx' = row_idx + 1
    /\ dpc' = "loop"
    /\ out_path' = None
    /\ url_arg' = None
    /\ retries' = 0
    /\ attempt' = 0
    /\ dl_attempts' = <<>>
    /\ dl_status' = "NoStatus"
    /\ UNCHANGED <<script, csv_lines, header, max_arg, rows, manifest, fs,
                   pipeVars, cropVars, parseVars,
                   dupVars, matchVars>>

\* main: the loop is over; the header line and writer.writerows(log).
WriteManifest ==
    /\ dpc = "loop"
    /\ row_idx > Len(rows)
    /\ manifest' = << << "file", "url", "status" >> >> \o log
    /\ dpc' = "done"
    /\ UNCHANGED <<script, csv_lines, header, max_arg, rows, row_idx, log, fs,
                   out_path, url_arg, retries, attempt, dl_attempts, dl_status,
                   pipeVars, cropVars, parseVars,
                   dupVars, matchVars>>

NextDownload == DownloadEnter \/ DownloadAttempt

SpecDownload == InitDownload /\ [][NextDownload]_vars

NextExtract == ReadRows

SpecExtract == InitExtract /\ [][NextExtract]_vars

NextTiles ==
    \/ ReadRows
    \/ ApplyMax
    \/ CallDownload
    \/ DownloadEnter
    \/ DownloadAttempt
    \/ AppendLog
    \/ WriteManifest

SpecTiles == InitTiles /\ [][NextTiles]_vars

(***************************************************************************)
(*              scripts/preprocessing/crop_resample_tiles.py               *)
(*                                                                         *)
(* Resolutions and map coordinates are whole numbers of metres, so that    *)
(* int(a / b) is the integer quotient; Python's floats can only lose more. *)
(***************************************************************************)

\* Most source tiles in the source folder.
MaxTifs == 2

\* Largest resolution (metres per pixel) drawn for --src_res and --dst_res.
MaxRes == 3

\* "int(tile_x_center / 1000)": metres per cell of the LV95 km grid.
GridMetres == 1000

\* Command lines of the cropper: tilesize, overlap, src_res, dst_res.  The
\* target is as coarse as the source or coarser, as in both calls of the
\* pipeline (0.1 -> 0.5 and 0.5 -> 0.5); the scan of a tile ends only when the
\* stride in source pixels is at least 1.
ArgChoices ==
    { a \in [tilesize : {4}, overlap : {0, 1}, src_res : 1..MaxRes,
             dst_res : 1..MaxRes] :
         /\ a.src_res <= a.dst_res
         /\ ((a.tilesize - a.overlap) * a.dst_res) \div a.src_res >= 1 }

\* What gdalinfo reports of a source tile: its corner coordinates and raster
\* size, or nothing when get_tile_bounds / get_tile_size return None.
TileChoices ==
    { [readable |-> TRUE, x_min |-> 2586994, y_max |-> 1133020,
       width |-> 10, height |-> 6],
      [readable |-> TRUE, x_min |-> 2587000, y_max |-> 1133003,
       width |-> 6, height |-> 10],
      [readable |-> FALSE, x_min |-> 0, y_max |-> 0, width |-> 0, height |-> 0] }

\* src_tile_size = int(tile_ground_size / args.src_res)
SrcTileSize(a) == (a.tilesize * a.dst_res) \div a.src_res

\* src_stride = int(stride_ground / args.src_res)
SrcStride(a) == ((a.tilesize - a.overlap) * a.dst_res) \div a.src_res

\* out_name: grid_x, grid_y of the window's centre, then idx_i, idx_j.  The
\* centre is tile_x_min + tile_ground_size / 2; halves are kept by doubling.
OutName(a, tile, i, j, x, y) ==
    << (2 * (tile.x_min + x * a.src_res) + a.tilesize * a.dst_res)
           \div (2 * GridMetres),
       (2 * (tile.y_max - y * a.src_res) - a.tilesize * a.dst_res)
           \div (2 * GridMetres),
       i, j >>

\* Patches an earlier run may have left in the output folder.
EarlierPatches == { << 2586, 1133, 0, 0 >>, << 2587, 1132, 1, 0 >> }

\* last_window before the loop body ran.
NoWindow ==
    [name |-> <<>>, i |-> 0, j |-> 0, x |-> 0, y |-> 0, outcome |-> "none"]

\* Faulty variant of PatchExists: the test left out.
PatchExists_Never(name) == FALSE

\* "if out_path.exists()"
PatchExists(name) == name \in out_dir

\* "if run_cmd(cmd, args.quiet): total_created += 1"
CountCreated(ok) == IF ok THEN total_created + 1 ELSE total_created

InitCrop ==
    /\ IdlePipeline
    /\ IdleDownload
    /\ IdleParse
    /\ IdleDup
    /\ IdleMatch
    /\ cpc = "start"
    /\ args \in ArgChoices
    /\ tif_files \in SeqUpTo(TileChoices, MaxTifs)
    /\ tif_idx = 1
    /\ src_tile_size = 0
    /\ src_stride = 0
    /\ idx_i = 0
    /\ idx_j = 0
    /\ x_offset = 0
    /\ y_offset = 0
    /\ out_dir \in { {}, EarlierPatches }
    /\ gdal_calls = <<>>
    /\ last_window = NoWindow
    /\ total_created = 0
    /\ total_skipped = 0

\* main, lines 70-96: the window geometry and the list of source tiles.
CropStart ==
    /\ cpc = "start"
    /\ src_tile_size' = SrcTileSize(args)
    /\ src_stride' = SrcStride(args)
    /\ cpc' = IF tif_files = <<>> THEN "exited" ELSE "tif"
    /\ UNCHANGED <<args, tif_files, tif_idx, idx_i, idx_j, x_offset, y_offset,
                   out_dir, gdal_calls, last_window, total_created,
                   total_skipped, pipeVars, dlVars, parseVars,
                   dupVars, matchVars>>

\* main, lines 98-114: the next source tile; one gdalinfo cannot read is skipped.
CropNextTif ==
    /\ cpc = "tif"
    /\ tif_idx <= Len(tif_files)
    /\ IF tif_files[tif_idx].readable
         THEN /\ idx_i' = 0
              /\ y_offset' = 0
              /\ cpc' = "rows"
              /\ tif_idx' = tif_idx
         ELSE /\ tif_idx' = tif_idx + 1
              /\ UNCHANGED <<idx_i, y_offset, cpc>>
    /\ UNCHANGED <<args, tif_files, src_tile_size, src_stride, idx_j, x_offset,
                   out_dir, gdal_calls, last_window, total_created,
                   total_skipped, pipeVars, dlVars, parseVars,
                   dupVars, matchVars>>

\* main, line 115: the test of the outer while, then lines 116-117 or the next tile.
CropRow ==
    /\ cpc = "rows"
    /\ IF y_offset + src_tile_size <= tif_files[tif_idx].height
         THEN /\ idx_j' = 0
              /\ x_offset' = 0
              /\ cpc' = "cols"
              /\ tif_idx' = tif_idx
         ELSE /\ tif_idx' = tif_idx + 1
              /\ cpc' = "tif"
              /\ UNCHANGED <<idx_j, x_offset>>
    /\ UNCHANGED <<args, tif_files, src_tile_size, src_stride, idx_i, y_offset,
                   out_dir, gdal_calls, last_window, total_created,
                   total_skipped, pipeVars, dlVars, parseVars,
                   dupVars, matchVars>>

\* main, lines 118-152: one window.  An existing patch is skipped; otherwise
\* gdal_translate runs and either writes the patch or fails, leaving a partial
\* file or none.
CropWindow ==
    /\ cpc = "cols"
    /\ x_offset + src_tile_size <= tif_files[tif_idx].width
    /\ LET name == OutName(args, tif_files[tif_idx], idx_i, idx_j, x_offset,
                           y_offset)
           window == [name |-> name, i |-> idx_i, j |-> idx_j, x |-> x_offset,
                      y |-> y_offset]
       IN IF PatchExists(name)
            THEN /\ total_skipped' = total_skipped + 1
                 /\ last_window' = window @@ [outcome |-> "skipped"]
                 /\ UNCHANGED <<out_dir, gdal_calls, total_created>>
            ELSE \E ok \in BOOLEAN : \E written \in BOOLEAN :
                 /\ ok => written
                 /\ gdal_calls' = Append(gdal_calls, << name, ok >>)
                 /\ out_dir' = IF written THEN out_dir \cup {name} ELSE out_dir
                 /\ total_created' = CountCreated(ok)
                 /\ last_window' = window @@
                        [outcome |-> IF ok THEN "created" ELSE "failed"]
                 /\ UNCHANGED total_skipped
    /\ idx_j' = idx_j + 1
    /\ x_offset' = x_offset + src_stride
    /\ UNCHANGED <<cpc, args, tif_files, tif_idx, src_tile_size, src_stride,
                   idx_i, y_offset, pipeVars, dlVars, parseVars,
                   dupVars, matchVars>>

\* main, lines 118 and 154-155: the inner while ends; the next row of windows.
CropRowEnd ==
    /\ cpc = "cols"
    /\ ~(x_offset + src_tile_size <= tif_files[tif_idx].width)
    /\ idx_i' = idx_i + 1
    /\ y_offset' = y_offset + src_stride
    /\ cpc' = "rows"
    /\ UNCHANGED <<args, tif_files, tif_idx, src_tile_size, src_stride, idx_j,
                   x_offset, out_dir, gdal_calls, last_window, total_created,
                   total_skipped, pipeVars, dlVars, parseVars,
                   dupVars, matchVars>>

\* main, lines 157-161: every tile was scanned.
CropFinish ==
    /\ cpc = "tif"
    /\ tif_idx > Len(tif_files)
    /\ cpc' = "done"
    /\ UNCHANGED <<args, tif_files, tif_idx, src_tile_size, src_stride, idx_i,
                   idx_j, x_offset, y_offset, out_dir, gdal_calls, last_window,
                   total_created, total_skipped, pipeVars, dlVars, parseVars,
                   dupVars, matchVars>>

NextCrop ==
    \/ CropStart
    \/ CropNextTif
    \/ CropRow
    \/ CropWindow
    \/ CropRowEnd
    \/ CropFinish

SpecCrop == InitCrop /\ [][NextCrop]_vars

(***************************************************************************)
(*   scripts/analysis/duplicate_suppression/find_duplicates_from_labels.py *)
(*   (parse_patch_name is repeated verbatim in visualize_duplicate_pairs)  *)
(*                                                                         *)
(* A file name is a sequence of characters; an extension is one element.   *)
(***************************************************************************)

\* Most underscore-separated parts a file name is built of.
MaxParts == 5

\* Denominator of the normalized box coordinates: a box centre is cx / CoordDen.
CoordDen == 4

Digits == { "0", "1", "2", "3", "4", "5", "6", "7", "8", "9" }

DigitValue(c) ==
    CASE c = "0" -> 0 [] c = "1" -> 1 [] c = "2" -> 2 [] c = "3" -> 3
      [] c = "4" -> 4 [] c = "5" -> 5 [] c = "6" -> 6 [] c = "7" -> 7
      [] c = "8" -> 8 [] c = "9" -> 9

\* The parts file names are built of.
PartChoices == { <<>>, << "0" >>, << "3" >>, << "1", "0" >>, << "x" >> }

\* The extensions file names are built with.
ExtChoices == { << ".txt" >>, << ".tif" >>, <<>> }

\* "_".join(parts)
RECURSIVE Join(_)
Join(parts) ==
    IF Len(parts) = 1 THEN parts[1]
    ELSE Join(SubSeq(parts, 1, Len(parts) - 1)) \o << "_" >> \o parts[Len(parts)]

\* str.replace(old, ''): drops every occurrence of the element old.
RECURSIVE Remove(_, _)
Remove(str, old) ==
    IF str = <<>> THEN <<>>
    ELSE IF str[1] = old THEN Remove(Tail(str), old)
    ELSE << str[1] >> \o Remove(Tail(str), old)

\* str.split('_')
RECURSIVE Split(_)
Split(str) ==
    IF \A k \in 1..Len(str) : str[k] # "_" THEN << str >>
    ELSE LET k == CHOOSE k \in 1..Len(str) :
                     str[k] = "_" /\ \A m \in 1..(k-1) : str[m] # "_"
         IN << SubSeq(str, 1, k - 1) >> \o Split(SubSeq(str, k + 1, Len(str)))

\* Whether int(str) returns: str is a non-empty run of digits.
IsInt(str) == str # <<>> /\ \A k \in 1..Len(str) : str[k] \in Digits

\* int(str)
RECURSIVE IntOf(_)
IntOf(str) ==
    IF str = <<>> THEN 0
    ELSE 10 * IntOf(SubSeq(str, 1, Len(str) - 1)) + DigitValue(str[Len(str)])

\* (None, None, None)
NoneTriple == [kind |-> "none", tile_id |-> <<>>, row |-> 0, col |-> 0]

\* Faulty variant of parse_patch_name: row and col taken from each other's part.
parse_patch_name_Swapped(name) ==
    LET parts == Split(Remove(Remove(name, ".txt"), ".tif"))
    IN IF Len(parts) >= 4
         THEN IF IsInt(parts[3]) /\ IsInt(parts[4])
                THEN [kind |-> "tuple",
                      tile_id |-> parts[1] \o << "_" >> \o parts[2],
                      row |-> IntOf(parts[4]), col |-> IntOf(parts[3])]
                ELSE [kind |-> "ValueError", tile_id |-> <<>>, row |-> 0, col |-> 0]
         ELSE NoneTriple

\* parse_patch_name(filename)
parse_patch_name(name) ==
    LET stem == Remove(Remove(name, ".txt"), ".tif")
        parts == Split(stem)
    IN IF Len(parts) >= 4
         THEN IF IsInt(parts[3]) /\ IsInt(parts[4])
                THEN [kind |-> "tuple",
                      tile_id |-> parts[1] \o << "_" >> \o parts[2],
                      row |-> IntOf(parts[3]), col |-> IntOf(parts[4])]
                ELSE [kind |-> "ValueError", tile_id |-> <<>>, row |-> 0, col |-> 0]
         ELSE NoneTriple

\* box_to_global_coords(box, patch_row, patch_col, patch_size, overlap); the box
\* holds the numerators of cx, cy, w, h over CoordDen, and so does the result.
box_to_global_coords(box, patch_row, patch_col, patch_size, overlap) ==
    LET px_local == box.cx * patch_size
        py_local == box.cy * patch_size
        w_pixels == box.w * patch_size
        h_pixels == box.h * patch_size
        stride == patch_size - overlap
    IN [cx |-> px_local + patch_col * stride * CoordDen,
        cy |-> py_local + patch_row * stride * CoordDen,
        w |-> w_pixels,
        h |-> h_pixels]

\* A call parse_patch_name(filename) on a name built of parts and an extension.
InitParse ==
    /\ IdlePipeline
    /\ IdleDownload
    /\ IdleCrop
    /\ IdleDup
    /\ IdleMatch
    /\ ypc = "call"
    /\ name_parts \in UNION { [1..k -> PartChoices] : k \in 1..MaxParts }
    /\ name_ext \in ExtChoices
    /\ filename = Join(name_parts) \o name_ext
    /\ parsed = [kind |-> "idle", tile_id |-> <<>>, row |-> 0, col |-> 0]

ParsePatchName ==
    /\ ypc = "call"
    /\ parsed' = parse_patch_name(filename)
    /\ ypc' = "returned"
    /\ UNCHANGED <<name_parts, name_ext, filename, pipeVars, dlVars, cropVars,
                   dupVars, matchVars>>

NextParse == ParsePatchName

SpecParse == InitParse /\ [][NextParse]_vars

(***************************************************************************)
(*        find_duplicates_from_labels.py: boxes_are_duplicates             *)
(***************************************************************************)

\* Largest centre coordinate, in pixels, of the global boxes of a call.
MaxCoord == 4

\* Largest distance_threshold, in pixels, of a call.
MaxThreshold == 5

\* The global boxes (cx, cy, w, h) a call is made with.
GlobalBoxChoices ==
    { [cx |-> x, cy |-> y, w |-> 1, h |-> 1] : x \in 0..MaxCoord, y \in 0..MaxCoord }

\* cx1, cy1, w1, h1 = box1_global; (cx1 - cx2)**2 + (cy1 - cy2)**2: the
\* square of the distance np.sqrt returns.
SquaredDistance(box1_global, box2_global) ==
    LET cx1 == box1_global.cx
        cy1 == box1_global.cy
        cx2 == box2_global.cx
        cy2 == box2_global.cy
    IN (cx1 - cx2) * (cx1 - cx2) + (cy1 - cy2) * (cy1 - cy2)

\* boxes_are_duplicates(box1_global, box2_global, distance_threshold): the
\* distance is carried as its square, and distance < distance_threshold of
\* two numbers that are not negative is the same comparison of their squares.
boxes_are_duplicates(box1_global, box2_global, distance_threshold) ==
    LET distance_sq == SquaredDistance(box1_global, box2_global)
    IN [is_duplicate |-> distance_sq < distance_threshold * distance_threshold,
        distance_sq |-> distance_sq]

\* A call boxes_are_duplicates(global1, global2, dup_threshold).
InitDuplicates ==
    /\ IdlePipeline
    /\ IdleDownload
    /\ IdleCrop
    /\ IdleParse
    /\ IdleMatch
    /\ bpc = "call"
    /\ global1 \in GlobalBoxChoices
    /\ global2 \in GlobalBoxChoices
    /\ dup_threshold \in 1..MaxThreshold
    /\ is_dup = NoResult
    /\ is_dup_rev = NoResult

\* The call of main, and the same call with the two boxes exchanged.
BoxesAreDuplicates ==
    /\ bpc = "call"
    /\ is_dup' = boxes_are_duplicates(global1, global2, dup_threshold)
    /\ is_dup_rev' = boxes_are_duplicates(global2, global1, dup_threshold)
    /\ bpc' = "returned"
    /\ UNCHANGED <<global1, global2, dup_threshold, pipeVars, dlVars, cropVars,
                   parseVars, matchVars>>

NextDuplicates == BoxesAreDuplicates

SpecDuplicates == InitDuplicates /\ [][NextDuplicates]_vars

(***************************************************************************)
(*        visualize_duplicate_pairs.py: find_matching_boxes                *)
(***************************************************************************)

\* Most boxes of a patch.
MaxBoxes == 2

\* Largest row and column of a patch.
MaxPatchIdx == 1

\* Largest coordinate, in pixels, of a target.
MaxTarget == 3

\* The YOLO boxes (cls, cx, cy, w, h) of a label file: cx, cy, w, h are
\* numerators over CoordDen.
BoxChoices ==
    { [cls |-> 0, cx |-> x, cy |-> y, w |-> 1, h |-> 1] :
        x \in {0, CoordDen \div 2, CoordDen}, y \in {0, CoordDen} }

\* The patch_size and overlap of a call.
PatchArgChoices ==
    { [patch_size |-> 4, overlap |-> 1],
      [patch_size |-> 4, overlap |-> 0],
      [patch_size |-> 6, overlap |-> 2] }

\* The target_globals of a call: one centre, as numerators over CoordDen.
TargetChoices ==
    { << <<x * CoordDen, y * CoordDen>> >> : x \in {0, MaxTarget}, y \in {0, MaxTarget} }

\* Faulty variant of global_centre: the patch's row and column taken for
\* each other.
global_centre_Swapped(box, patch_row, patch_col, patch_size, overlap) ==
    LET stride == patch_size - overlap
        px_local == box.cx * patch_size
        py_local == box.cy * patch_size
    IN << px_local + patch_row * stride * CoordDen,
          py_local + patch_col * stride * CoordDen >>

\* The (global_cx, global_cy) the loop body of find_matching_boxes computes
\* of a box, as numerators over CoordDen.
global_centre(box, patch_row, patch_col, patch_size, overlap) ==
    LET stride == patch_size - overlap
        px_local == box.cx * patch_size
        py_local == box.cy * patch_size
        global_cx == px_local + patch_col * stride * CoordDen
        global_cy == py_local + patch_row * stride * CoordDen
    IN <<global_cx, global_cy>>

\* find_matching_boxes(target_globals, boxes, patch_row, patch_col,
\* patch_size, overlap, threshold): the set of the indices, counted from 0,
\* of the boxes closer than threshold to a target. Distances are compared
\* by their squares, in units of 1/CoordDen pixel.
find_matching_boxes(target_globals, boxes, patch_row, patch_col, patch_size, overlap, threshold) ==
    { idx \in 0..(Len(boxes) - 1) :
        \E t \in 1..Len(target_globals) :
            LET g == global_centre(boxes[idx + 1], patch_row, patch_col,
                                   patch_size, overlap)
                target_global == target_globals[t]
                distance_sq == (g[1] - target_global[1]) * (g[1] - target_global[1])
                               + (g[2] - target_global[2]) * (g[2] - target_global[2])
            IN distance_sq < (threshold * CoordDen) * (threshold * CoordDen) }

\* The boxes of one patch, about to be converted by both scripts.
InitMatch ==
    /\ IdlePipeline
    /\ IdleDownload
    /\ IdleCrop
    /\ IdleParse
    /\ IdleDup
    /\ mpc = "convert"
    /\ patch_boxes \in UNION { [1..k -> BoxChoices] : k \in 1..MaxBoxes }
    /\ prow \in 0..MaxPatchIdx
    /\ pcol \in 0..MaxPatchIdx
    /\ \E a \in PatchArgChoices : psize = a.patch_size /\ poverlap = a.overlap
    /\ targets \in TargetChoices
    /\ pthreshold \in {1, MaxThreshold}
    /\ global_boxes = <<>>
    /\ global_centres = <<>>
    /\ matching_indices = {}

\* find_duplicates_from_labels.py converts each box of the patch.
ConvertBoxes ==
    /\ mpc = "convert"
    /\ global_boxes' = [k \in 1..Len(patch_boxes) |->
                          box_to_global_coords(patch_boxes[k], prow, pcol,
                                               psize, poverlap)]
    /\ mpc' = "match"
    /\ UNCHANGED <<patch_boxes, prow, pcol, psize, poverlap, targets, pthreshold,
                   global_centres, matching_indices, pipeVars, dlVars,
                   cropVars, parseVars, dupVars>>

\* visualize_duplicate_pairs.py calls find_matching_boxes on the same patch.
FindMatchingBoxes ==
    /\ mpc = "match"
    /\ global_centres' = [k \in 1..Len(patch_boxes) |->
                            global_centre(patch_boxes[k], prow, pcol, psize,
                                          poverlap)]
    /\ matching_indices' = find_matching_boxes(targets, patch_boxes, prow, pcol,
                                               psize, poverlap, pthreshold)
    /\ mpc' = "returned"
    /\ UNCHANGED <<patch_boxes, prow, pcol, psize, poverlap, targets, pthreshold,
                   global_boxes, pipeVars, dlVars, cropVars, parseVars,
                   dupVars>>

NextMatch == ConvertBoxes \/ FindMatchingBoxes

SpecMatch == InitMatch /\ [][NextMatch]_vars

(***************************************************************************)
(*                              Properties                                 *)
(***************************************************************************)

\* The order of the steps as documented: the two downloads, the hillshades,
\* the two crops, the fusion.
DocumentedOrder ==
    << "download_swissimage", "download_dsm", "generate_hillshade",
       "crop_resample_swissimage", "crop_hillshade", "fuse_rgb_hs" >>

\* C1: the steps of run_preprocessing_for_canton start in the documented
\* order, a step starts only after the one before it finished with exit
\* status 0, and at most one child process is alive at any time.
C1_StepsInOrderOneAtATime ==
    /\ Cardinality(running) <= 1
    /\ Len(started) <= Len(DocumentedOrder)
    /\ \A n \in 1..Len(started) : Steps[started[n]] = DocumentedOrder[n]
    /\ \A n \in 2..Len(started) :
          /\ Len(finished) >= n - 1
          /\ finished[n - 1] = << started[n - 1], 0 >>
    /\ \A c \in running : c = started[Len(started)]

\* The last step is running after the five before it succeeded.
C1_Witness ==
    /\ Len(started) = 6
    /\ running = {6}
    /\ Len(finished) = 5

\* C2: a step that ends with a non-zero status ends the pipeline with exit
\* status 1 and is the last step started; the completion message is printed
\* only after all six steps ended with status 0.
C2_FailureStopsPipeline ==
    /\ \A n \in 1..Len(finished) :
          finished[n][2] # 0 =>
             /\ ppc = "exited"
             /\ exit_status = 1
             /\ n = Len(finished)
             /\ started[Len(started)] = finished[n][1]
             /\ running = {}
             /\ ~complete_printed
    /\ complete_printed =>
          /\ Len(finished) = 6
          /\ \A n \in 1..6 : finished[n] = << n, 0 >>

\* The third step failed after two successes.
C2_Witness ==
    /\ Len(finished) = 3
    /\ finished[3] = << 3, 2 >>
    /\ exit_status = 1

\* Whether dir lacks a CSV whose name has the keyword; find_csv compares the
\* lower-cased name, so the letter case of the name does not count.
LacksCsv(dir, keyword) ==
    ~ \E f \in dir : /\ f[Len(f)] = ".csv"
                     /\ \E n \in 1..Len(f) : LowerFragment(f[n]) = keyword

\* C3: when the URL folder lacks a swissimage CSV or a swisssurface3d-raster
\* CSV, the script exits with status 1 and no step was ever started.
C3_MissingCsvExitsBeforeSteps ==
    (ppc # "find_csv" /\ (LacksCsv(folder, "swissimage")
                          \/ LacksCsv(folder, "swisssurface3d-raster")))
    => /\ ppc = "exited"
       /\ exit_status = 1
       /\ started = <<>>
       /\ running = {}
       /\ ~complete_printed

\* The folder holds a SWISSIMAGE export only, and the script has exited.
C3_Witness ==
    /\ ppc = "exited"
    /\ ~LacksCsv(folder, "swissimage")
    /\ LacksCsv(folder, "swisssurface3d-raster")
    /\ swissimage_csv # None

\* C4: download called on an existing file of size > 0 returns "skip" at once:
\* no HTTP attempt is made and no file changes.
C4_SkipExistingFile ==
    [][ (dpc = "dl_enter" /\ fs[out_path] > 0)
        => /\ dl_status' = "skip"
           /\ dpc' = "dl_return"
           /\ dl_attempts' = <<>>
           /\ fs' = fs ]_vars

\* A call with retries = 3 on a file of two chunks returned "skip".
C4_Witness ==
    /\ dpc = "dl_return"
    /\ dl_status = "skip"
    /\ retries = 3
    /\ fs[out_path] = 2

\* An attempt failed: it raised, or it ended and left an empty file.
AttemptFailed(a) == a \in { "request_raises", "stream_raises", "completes_empty" }

\* C5: download with retries >= 1 and no non-empty file makes at most retries
\* attempts; it is still trying exactly while every attempt so far failed and
\* fewer than retries were made; it returns "ok" right after the first attempt
\* that did not fail, and an error status only after exactly retries failures.
C5_AtMostRetriesAttempts ==
    (retries >= 1 /\ dl_status # "skip" /\ dpc \in { "dl_try", "dl_return" })
    => /\ Len(dl_attempts) <= retries
       /\ \A n \in 1..(Len(dl_attempts) - 1) : AttemptFailed(dl_attempts[n])
       /\ dpc = "dl_try" =>
             /\ \A n \in 1..Len(dl_attempts) : AttemptFailed(dl_attempts[n])
             /\ Len(dl_attempts) < retries
             /\ attempt = Len(dl_attempts) + 1
       /\ dpc = "dl_return" =>
             /\ dl_attempts # <<>>
             /\ dl_status \in { "ok" } \cup ErrorStatuses
             /\ dl_status = "ok"
                   <=> ~AttemptFailed(dl_attempts[Len(dl_attempts)])
             /\ dl_status = "ok" => fs[out_path] > 0
             /\ dl_status \in ErrorStatuses => Len(dl_attempts) = retries

\* Two attempts failed and the third one succeeded.
C5_Witness ==
    /\ dpc = "dl_return"
    /\ retries = 3
    /\ dl_status = "ok"
    /\ Len(dl_attempts) = 3

\* The rows main extracts from the input file, before --max cuts them.
ExtractedRows ==
    IF script = "root" THEN DictReaderRows(header, csv_lines)
                       ELSE extract_urls_from_csv(csv_lines)

\* The number of rows --max leaves of n.
ExpectedCount(n) ==
    IF max_arg > 0 THEN (IF max_arg < n THEN max_arg ELSE n) ELSE n

\* C6: manifest.csv holds, after its header, one line per processed row in
\* processing order; the processed rows are the first --max extracted rows
\* when --max > 0 and all of them when --max is 0.
C6_ManifestRowsMatchMax ==
    dpc = "done"
    => /\ Len(manifest) = 1 + ExpectedCount(Len(ExtractedRows))
       /\ manifest[1] = << "file", "url", "status" >>
       /\ \A n \in 1..(Len(manifest) - 1) :
             /\ manifest[n + 1][1] = FName(ExtractedRows[n][1])
             /\ manifest[n + 1][2] = ExtractedRows[n][2]
             /\ manifest[n + 1][3] \in { "ok", "skip" } \cup ErrorStatuses

\* --max 1 cut two extracted rows down to one manifest line.
C6_Witness ==
    /\ dpc = "done"
    /\ max_arg = 1
    /\ Len(ExtractedRows) = 2
    /\ Len(manifest) = 2

\* The URLs extract_urls_from_csv finds in the input: of every line, the first
\* URL, with its backslashes dropped.
FoundUrls ==
    { StripBackslash(SearchHttp(csv_lines[n])) :
         n \in { m \in 1..Len(csv_lines) : SearchHttp(csv_lines[m]) # None } }

\* C7: the list extract_urls_from_csv returns holds every URL it found exactly
\* once, and nothing else, however many lines hold that URL.
C7_EachUrlOnce ==
    dpc = "limit"
    => /\ \A u \in FoundUrls :
             Cardinality({ n \in 1..Len(rows) : rows[n][2] = u }) = 1
       /\ \A n \in 1..Len(rows) : rows[n][2] \in FoundUrls

\* Three lines with one URL (once written with a backslash) gave one pair.
C7_Witness ==
    /\ dpc = "limit"
    /\ Len(csv_lines) = 3
    /\ Cardinality({ csv_lines[n] : n \in 1..3 }) = 3
    /\ Len(rows) = 1

\* The name of the window the loop body of the cropper is about to handle.
CurrentName ==
    OutName(args, tif_files[tif_idx], idx_i, idx_j, x_offset, y_offset)

\* C8: for a window whose patch exists, gdal_translate is not run, the output
\* folder is left as it is, total_skipped grows by one and the scan moves to
\* the next window; total_created grows, by one, only in a step in which
\* gdal_translate ran for the window and succeeded.
C8_SkipExistingPatch ==
    [][ /\ (cpc = "cols"
            /\ x_offset + src_tile_size <= tif_files[tif_idx].width
            /\ CurrentName \in out_dir)
           => /\ gdal_calls' = gdal_calls
              /\ out_dir' = out_dir
              /\ total_skipped' = total_skipped + 1
              /\ total_created' = total_created
              /\ idx_j' = idx_j + 1
              /\ x_offset' = x_offset + src_stride
              /\ cpc' = "cols"
        /\ total_created' # total_created
           => /\ total_created' = total_created + 1
              /\ CurrentName \notin out_dir
              /\ gdal_calls' = Append(gdal_calls, << CurrentName, TRUE >>)
      ]_vars

\* A window was skipped after another one had been created.
C8_Witness ==
    /\ last_window.outcome = "skipped"
    /\ total_skipped >= 1
    /\ total_created >= 1
    /\ last_window.j >= 1

\* The box at the origin of a patch.
OriginBox == [cx |-> 0, cy |-> 0, w |-> 0, h |-> 0]

\* C9: the origin of every window, measured in output pixels (the window's
\* src_tile_size source pixels become tilesize output pixels), is the offset
\* box_to_global_coords adds for the window's row and column.
C9_WindowOriginIsGlobalOffset ==
    last_window.outcome # "none"
    => LET g == box_to_global_coords(OriginBox, last_window.i, last_window.j,
                                     args.tilesize, args.overlap)
       IN /\ last_window.x * args.tilesize * CoordDen = g.cx * src_tile_size
          /\ last_window.y * args.tilesize * CoordDen = g.cy * src_tile_size

\* C10: a name built of four parts, the last two of them numbers, and
\* ending in .txt or .tif yields tile id "A_B", row R and col C; a name of fewer
\* than four parts yields (None, None, None).
C10_ParsePatchName ==
    ypc = "returned"
    => /\ Len(name_parts) < 4 => parsed = NoneTriple
       /\ (Len(name_parts) = 4 /\ name_ext # <<>>
           /\ IsInt(name_parts[3]) /\ IsInt(name_parts[4]))
          => /\ parsed.kind = "tuple"
             /\ parsed.tile_id = name_parts[1] \o << "_" >> \o name_parts[2]
             /\ parsed.row = IntOf(name_parts[3])
             /\ parsed.col = IntOf(name_parts[4])

\* "10_x_0_3.tif" was parsed to tile "10_x", row 0, col 3.
C10_Witness ==
    /\ ypc = "returned"
    /\ name_parts = << << "1", "0" >>, << "x" >>, << "0" >>, << "3" >> >>
    /\ name_ext = << ".tif" >>
    /\ parsed = [kind |-> "tuple", tile_id |-> << "1", "0", "_", "x" >>,
                 row |-> 0, col |-> 3]

\* C11: boxes_are_duplicates returns is_duplicate = True exactly for the
\* pairs of boxes whose centres are at most distance_threshold apart, a
\* distance equal to distance_threshold included, and the answer does not
\* depend on the order of the two boxes.
C11_ThresholdIsMaximumDistance ==
    bpc = "returned"
    => LET dx == global1.cx - global2.cx
           dy == global1.cy - global2.cy
       IN /\ is_dup.is_duplicate
             <=> dx * dx + dy * dy <= dup_threshold * dup_threshold
          /\ is_dup_rev.is_duplicate = is_dup.is_duplicate

\* C12: for every box, patch position, patch_size and overlap, the global
\* centre computed inside find_matching_boxes is the (global_cx, global_cy)
\* box_to_global_coords returns.
C12_SameGlobalCentre ==
    mpc = "returned"
    => /\ Len(global_centres) = Len(global_boxes)
       /\ \A k \in 1..Len(patch_boxes) :
             global_centres[k] = <<global_boxes[k].cx, global_boxes[k].cy>>

\* Both conversions were made of a box at the middle of the patch at row 0,
\* column 1, with patch_size 6 and overlap 2.
C12_Witness ==
    /\ mpc = "returned"
    /\ prow = 0
    /\ pcol = 1
    /\ psize = 6
    /\ poverlap = 2
    /\ Len(patch_boxes) = MaxBoxes
    /\ patch_boxes[1].cx = CoordDen \div 2
    /\ patch_boxes[1].cy = CoordDen
    /\ global_centres[1] = <<6 * (CoordDen \div 2) + 4 * CoordDen, 6 * CoordDen>>
    /\ global_boxes[1].cx = global_centres[1][1]

====
